---- MODULE Spec2Model ----
(***************************************************************************)
(* SurfacePlot: a model of the interpolation model object                  *)
(* (models/interpolate.py), the exporter's filename handling               *)
(* (models/export.py), the axis mappings and the colormap widget           *)
(* (views/graph_items.py), the controller's handlers                      *)
(* (controllers/main_ctrl.py) and the files the exporter writes.           *)
(*                                                                         *)
(* Python values are tagged records, so that None can stand where a        *)
(* string, an array or a data frame can.  Strings are sequences of         *)
(* one-character strings.  Real numbers are exact fractions <<n, d>>.      *)
(***************************************************************************)
EXTENDS Integers, Sequences, FiniteSets, TLC

VARIABLES
    interpolate,      \* main_ctrl.interpolate: the InterpolatedImage object
    exporter,         \* main_ctrl.exporter: the Export object
    XImageAxis,       \* class attributes of XImageAxis (points, range_, coe)
    YImageAxis,       \* class attributes of YImageAxis (points, range_, coe)
    plot,             \* SurfacePlot / ColormapWidget display state
    method_combo,     \* ui.method_combo.currentText()
    intpola_num_spin, \* ui.intpola_num_spin.value()
    coord_check,      \* ui.coord_check.isChecked()
    proxy,            \* SurfacePlot.proxy: the mouse event the SignalProxy holds back
    fs,               \* the file system: directories and files under the working directory
    now,              \* dt.datetime.now(), to the second
    outcome,          \* how the last handler ended (message shown, exception escaped)
    crashed           \* the process was aborted by an exception that escaped a slot

vars == <<interpolate, exporter, XImageAxis, YImageAxis, plot, method_combo,
          intpola_num_spin, coord_check, proxy, fs, now, outcome, crashed>>

---------------------------------------------------------------------------
(* Python values *)

None == [type |-> "NoneType"]

Str(chars) == [type |-> "str", v |-> chars]

NdArray(rows) == [type |-> "ndarray", v |-> rows]

Tuple(v) == [type |-> "tuple", v |-> v]

Float(f) == [type |-> "float", v |-> f]

Path(chars) == [type |-> "Path", v |-> chars]

DataFrame(ncols, rows) == [type |-> "DataFrame", ncols |-> ncols, rows |-> rows]

Frac(n, d) == <<n, d>>

FracEq(a, b) == a[1] * b[2] = b[1] * a[2]

MinOf(S) == CHOOSE v \in S : \A w \in S : v <= w

MaxOf(S) == CHOOSE v \in S : \A w \in S : w <= v

---------------------------------------------------------------------------
(* Strings and paths *)

Backslash == "\\"

DQuote == "\""

SQuote == "'"

Has(s, c) == \E i \in 1..Len(s) : s[i] = c

RECURSIVE Escape(_, _)
Escape(s, quote) ==
    IF s = <<>> THEN <<>>
    ELSE LET c == Head(s)
         IN (IF c = Backslash THEN <<Backslash, Backslash>>
             ELSE IF c = quote THEN <<Backslash, c>>
             ELSE <<c>>) \o Escape(Tail(s), quote)

\* repr(str): double quotes only when the string holds ' and no "
Repr(s) ==
    LET quote == IF Has(s, SQuote) /\ ~Has(s, DQuote) THEN DQuote ELSE SQuote
    IN <<quote>> \o Escape(s, quote) \o <<quote>>

\* repr(filepath).replace("'", "")
ReprNormalise(s) == SelectSeq(Repr(s), LAMBDA c : c # SQuote)

\* the final component of a path (pathlib's name)
PathName(p) ==
    LET slashes == {i \in 1..Len(p) : p[i] = "/"}
    IN IF slashes = {} THEN p ELSE SubSeq(p, MaxOf(slashes) + 1, Len(p))

RDot(name) ==
    LET dots == {i \in 1..Len(name) : name[i] = "."}
    IN IF dots = {} THEN 0 ELSE MaxOf(dots)

\* pathlib's suffix: from the last dot, unless the dot starts or ends the name
Suffix(p) ==
    LET name == PathName(p)
        i == RDot(name)
    IN IF 1 < i /\ i < Len(name) THEN SubSeq(name, i, Len(name)) ELSE <<>>

Stem(p) ==
    LET name == PathName(p)
        i == RDot(name)
    IN IF 1 < i /\ i < Len(name) THEN SubSeq(name, 1, i - 1) ELSE name

NOT_USED_STRING == {"\\", "/", ":", "*", "?", "\"", "<", ">", "|"}

REPLACE_STRING == "-"

RECURSIVE DropNotUsed(_)
DropNotUsed(s) ==
    IF s # <<>> /\ Head(s) \in NOT_USED_STRING THEN DropNotUsed(Tail(s)) ELSE s

\* re.sub(r'[\\/:*?"<>|]+', '-', filename): each maximal run becomes one '-'
RECURSIVE replace_string(_)
replace_string(filename) ==
    IF filename = <<>> THEN <<>>
    ELSE IF Head(filename) \in NOT_USED_STRING
         THEN <<REPLACE_STRING>> \o replace_string(DropNotUsed(Tail(filename)))
         ELSE <<Head(filename)>> \o replace_string(Tail(filename))

---------------------------------------------------------------------------
(* The files the user can pick in the file dialog.  A file is its path and *)
(* the table pandas.read_csv finds in it: the number of columns of the     *)
(* header row and the data rows.                                           *)

File(path, ncols, rows) == [path |-> path, ncols |-> ncols, rows |-> rows]

\* four columns: the first is ignored, the last three are x, y, z
Triangle == <<<<7, 0, 0, 1>>, <<8, 2, 0, 2>>, <<9, 1, 3, 3>>>>

Collinear3 == <<<<0, 0, 1>>, <<1, 1, 2>>, <<2, 2, 3>>>>

Files ==
    { File(<<"d", "/", "a", ".", "c", "s", "v">>, 4, Triangle),
      File(<<"l", ".", "c", "s", "v">>, 3, Collinear3),
      File(<<"t", ".", "c", "s", "v">>, 2, <<<<0, 1>>, <<1, 2>>>>),
      File(<<"o", ".", "c", "s", "v">>, 1, <<<<0>>, <<1>>>>),
      File(<<"e", ".", "c", "s", "v">>, 0, <<>>),
      File(<<"h", ".", "c", "s", "v">>, 3, <<>>),
      File(<<"n", "'", ".", "x", "c", "s", "v">>, 3, Collinear3),
      File(<<"m", ".", "t", "x", "t">>, 0, <<>>) }

\* a file whose points all have the same x
Vertical3 == <<<<1, 0, 1>>, <<1, 1, 2>>, <<1, 2, 3>>>>

VerticalFile == File(<<"v", ".", "c", "s", "v">>, 3, Vertical3)

\* files whose names hold an apostrophe, a double quote or a backslash; the
\* name of the last one is the name of the one before it with the backslash
\* doubled
Shifted == <<<<5, 0, 1>>, <<7, 0, 2>>, <<6, 3, 3>>>>

QuotedFiles ==
    { File(<<"k", SQuote, ".", "c", "s", "v">>, 3, Shifted),
      File(<<"q", DQuote, ".", "c", "s", "v">>, 4, Triangle),
      File(<<"b", Backslash, "c", ".", "c", "s", "v">>, 4, Triangle),
      File(<<"b", Backslash, Backslash, "c", ".", "c", "s", "v">>, 3, Shifted) }

\* every file of the working directory
Disk == Files \cup {VerticalFile} \cup QuotedFiles

\* what QFileDialog.getOpenFileName returns: a file picked under the filter
\* '*csv', a file picked under 'All Files(*)', or ('', '') when cancelled
DialogResults ==
    {<<f.path, "*csv">> : f \in Files}
        \cup {<<<<"d", "/", "a", ".", "c", "s", "v">>, "All Files(*)">>, <<<<>>, "">>}

Methods == {"linear", "cubic", "nearest"}

---------------------------------------------------------------------------
(* models/interpolate.py *)

\* the result of a call: the object after the call, the value returned and
\* the exception raised (None when the call returned)
Result(self, value, exc) == [self |-> self, value |-> value, exc |-> exc]

\* the exc of a call that returned
NoError == "NoError"

\* pd.read_csv(filepath)
read_csv(filepath) ==
    IF ~\E f \in Disk : f.path = filepath
    THEN Result(None, None, "FileNotFoundError")
    ELSE LET f == CHOOSE f \in Disk : f.path = filepath
         IN IF f.ncols = 0
            THEN Result(None, None, "EmptyDataError")
            ELSE Result(None, DataFrame(f.ncols, f.rows), NoError)

\* df.iloc[:, -3:]: the last three columns, or all of them when there are fewer
iloc_last3(df) ==
    LET w == IF df.ncols < 3 THEN df.ncols ELSE 3
    IN DataFrame(w, [i \in 1..Len(df.rows) |->
                        SubSeq(df.rows[i], df.ncols - w + 1, df.ncols)])

\* np.array(df.iloc[:, j]) for the 0-based column j
Column(df, j) == [i \in 1..Len(df.rows) |-> df.rows[i][j + 1]]

Values(seq) == {seq[i] : i \in 1..Len(seq)}

\* np.linspace(start, stop, num), num >= 1: start + i * (stop - start) / (num - 1)
linspace(start, stop, num) ==
    [i \in 1..num |->
        IF num = 1 THEN Frac(start, 1)
        ELSE Frac(start * (num - 1) + (i - 1) * (stop - start), num - 1)]

\* np.meshgrid(resolved_x, resolved_y, indexing='ij'): the transposed grids
meshgrid_ij(resolved_x, resolved_y) ==
    <<NdArray([r \in 1..Len(resolved_x) |->
                  [c \in 1..Len(resolved_y) |-> resolved_x[r]]]),
      NdArray([r \in 1..Len(resolved_x) |-> resolved_y])>>

\* np.meshgrid(resolved_x, resolved_y)
meshgrid(resolved_x, resolved_y) ==
    <<NdArray([r \in 1..Len(resolved_y) |-> resolved_x]),
      NdArray([r \in 1..Len(resolved_y) |->
                  [c \in 1..Len(resolved_x) |-> resolved_y[r]]])>>

\* array.shape of a 2-D array
Shape(a) == IF Len(a.v) = 0 THEN <<0, 0>> ELSE <<Len(a.v), Len(a.v[1])>>

interpolated_x_coord(self) == self.x_grid.v[1]

interpolated_y_coord(self) == [r \in 1..Len(self.y_grid.v) |-> self.y_grid.v[r][1]]

make_xy_grid(self) ==
    LET df == self.original_data
    IN IF df = None THEN Result(self, None, "AttributeError")
       ELSE IF df.ncols < 1 THEN Result(self, None, "IndexError")
       ELSE IF Len(df.rows) = 0 THEN Result(self, None, "ValueError")
       ELSE IF df.ncols < 2 THEN Result(self, None, "IndexError")
       ELSE LET x == Column(df, 0)
                y == Column(df, 1)
                resolved_x == linspace(MinOf(Values(x)), MaxOf(Values(x)),
                                       Cardinality(Values(x)) * self.resolution)
                resolved_y == linspace(MinOf(Values(y)), MaxOf(Values(y)),
                                       Cardinality(Values(y)) * self.resolution)
                grid == meshgrid(resolved_x, resolved_y)
            IN Result([self EXCEPT !.x_grid = grid[1], !.y_grid = grid[2]],
                      None, NoError)

csv == <<".", "c", "s", "v">>

\* set_filepath without the suffix check
set_filepath_unchecked(self, filepath) ==
    LET read == read_csv(ReprNormalise(filepath))
    IN IF read.exc # NoError THEN Result(self, None, read.exc)
       ELSE make_xy_grid([self EXCEPT !.original_data = iloc_last3(read.value)])

set_filepath(self, filepath) ==
    LET path == ReprNormalise(filepath)
    IN IF Suffix(path) # csv THEN Result(self, None, "NotCsvError")
       ELSE LET read == read_csv(path)
            IN IF read.exc # NoError THEN Result(self, None, read.exc)
               ELSE make_xy_grid([self EXCEPT
                                     !.original_data = iloc_last3(read.value)])

\* the points lie on one line (or are fewer than three): no triangulation
Degenerate(points) ==
    \A i, j, k \in 1..Len(points) :
        (points[j][1] - points[i][1]) * (points[k][2] - points[i][2])
            = (points[k][1] - points[i][1]) * (points[j][2] - points[i][2])

\* scipy.interpolate.griddata(points, values, xi, method): the external routine.
\* One point column with a two-array xi is "invalid number of dimensions in xi";
\* linear and cubic triangulate and fail on degenerate points with QhullError.
\* The field's values are those of the routine: the field is recorded by its
\* shape and by the points, values and method it was computed from.
griddata(points, values, xi, method) ==
    IF xi[1] = None \/ points = <<>> \/ Len(points[1]) # 2
    THEN Result(None, None, "ValueError")
    ELSE IF method \in {"linear", "cubic"} /\ Degenerate(points)
    THEN Result(None, None, "QhullError")
    ELSE Result(None,
                [type |-> "ndarray", shape |-> Shape(xi[1]), method |-> method,
                 points |-> points, values |-> values],
                NoError)

\* calc_griddata without the except clause
calc_griddata_untranslated(self, method) ==
    LET df == self.original_data
    IN griddata([i \in 1..Len(df.rows) |-> SubSeq(df.rows[i], 1, df.ncols - 1)],
                Column(df, df.ncols - 1), <<self.x_grid, self.y_grid>>, method)

calc_griddata(self, method) ==
    LET df == self.original_data
        knew_points == [i \in 1..Len(df.rows) |-> SubSeq(df.rows[i], 1, df.ncols - 1)]
        knew_values == Column(df, df.ncols - 1)
        xi == <<self.x_grid, self.y_grid>>
        r == griddata(knew_points, knew_values, xi, method)
    IN IF r.exc = "QhullError" THEN Result(self, None, "ValueError")
       ELSE Result(self, r.value, r.exc)

get_coord_range(self, axis) ==
    IF axis \notin {"x", "y"} THEN Result(self, None, "ValueError")
    ELSE LET col == Column(self.original_data, IF axis = "x" THEN 0 ELSE 1)
         IN Result(self, <<MinOf(Values(col)), MaxOf(Values(col))>>, NoError)

original_x_coord(self) == Column(self.original_data, 0)

original_y_coord(self) == Column(self.original_data, 1)

---------------------------------------------------------------------------
(* models/export.py: the filename stem of the exporter *)

\* a filename setter that assigns the other attribute
filename_setter_other(self, name) == [self EXCEPT !.root_dir = Str(replace_string(name))]

filename_setter(self, name) == [self EXCEPT !.filename = Str(replace_string(name))]

---------------------------------------------------------------------------
(* views/graph_items.py: the axis mappings.  points, range_ and coe are   *)
(* class attributes, shared by every instance of the axis class.          *)

XImageAxis_change_data_range(cls, range_) ==
    [cls EXCEPT !.range_ = range_,
                !.coe = Frac(range_[2] - range_[1], cls.points)]

\* change_x_size that stores the size and keeps the old coe
change_x_size_stale(cls, points) == [cls EXCEPT !.points = points]

change_x_size(cls, points) ==
    [cls EXCEPT !.points = points,
                !.coe = Frac(cls.range_[2] - cls.range_[1], points)]

YImageAxis_change_data_range(cls, range_) ==
    [cls EXCEPT !.range_ = range_,
                !.coe = Frac(range_[2] - range_[1], cls.points)]

change_y_size(cls, points) ==
    [cls EXCEPT !.points = points,
                !.coe = Frac(cls.range_[2] - cls.range_[1], points)]

\* the value tickStrings formats for the pixel value: coe * value + range_[0]
tickValue(cls, value) == Frac(cls.coe[1] * value + cls.range_[1] * cls.coe[2], cls.coe[2])

\* the same for a pixel value that is a fraction
tickValueAt(cls, value) ==
    Frac(cls.coe[1] * value[1] + cls.range_[1] * cls.coe[2] * value[2],
         cls.coe[2] * value[2])

---------------------------------------------------------------------------
(* The program as one record, so that a handler's statements compose.     *)
(* unhandled is the exception that escaped a slot during the handler,     *)
(* shown the exception show_error_message displayed.                      *)

World ==
    [interpolate |-> interpolate, exporter |-> exporter,
     XImageAxis |-> XImageAxis, YImageAxis |-> YImageAxis, plot |-> plot,
     method_combo |-> method_combo, intpola_num_spin |-> intpola_num_spin,
     coord_check |-> coord_check, proxy |-> proxy, fs |-> fs, now |-> now,
     shown |-> NoError, unhandled |-> NoError]

\* an exception leaves a slot uncaught (the first one is kept)
Unhandled(w, exc) ==
    IF w.unhandled = NoError THEN [w EXCEPT !.unhandled = exc] ELSE w

\* MainWindow.show_error_message: QMessageBox.critical(self, 'Error', f"{ex}")
show_error_message(w, ex) == [w EXCEPT !.shown = ex]

\* int(): truncation toward zero of the fraction f (f[2] > 0)
int(f) == IF f[1] >= 0 THEN f[1] \div f[2] ELSE -((-f[1]) \div f[2])

\* SurfacePlot.plot_hcross_section / plot_vcross_section: the curve shows
\* row (column) pos of the image
plot_hcross_section(w, data) == [w EXCEPT !.plot.hcs_curve = data]

plot_vcross_section(w, data) == [w EXCEPT !.plot.vcs_curve = data]

\* MainWindow.change_index_to_coord_h: y[pos] of the sampling grid to the label
change_index_to_coord_h(w, pos) ==
    IF w.interpolate.y_grid = None THEN Unhandled(w, "TypeError")
    ELSE LET y == interpolated_y_coord(w.interpolate)
         IN IF pos + 1 > Len(y) THEN Unhandled(w, "IndexError")
            ELSE [w EXCEPT !.plot.hcs_label = Float(y[pos + 1])]

change_index_to_coord_v(w, pos) ==
    IF w.interpolate.x_grid = None THEN Unhandled(w, "TypeError")
    ELSE LET x == interpolated_x_coord(w.interpolate)
         IN IF pos + 1 > Len(x) THEN Unhandled(w, "IndexError")
            ELSE [w EXCEPT !.plot.vcs_label = Float(x[pos + 1])]

\* ColormapWidget.get_hcross_section: emits getHCrossSection(image[line_pos],
\* line_pos) to plot_hcross_section, then to change_index_to_coord_h
get_hcross_section(w) ==
    LET image == w.plot.image
        line_pos == int(w.plot.hcs_pos)
    IN IF image = None THEN w
       ELSE IF 0 <= line_pos /\ line_pos < image.shape[1]
       THEN change_index_to_coord_h(
                plot_hcross_section(w, [image |-> image, row |-> line_pos]), line_pos)
       ELSE w

get_vcross_section(w) ==
    LET image == w.plot.image
        line_pos == int(w.plot.vcs_pos)
    IN IF image = None THEN w
       ELSE IF 0 <= line_pos /\ line_pos < image.shape[2]
       THEN change_index_to_coord_v(
                plot_vcross_section(w, [image |-> image, column |-> line_pos]), line_pos)
       ELSE w

\* InfiniteLine.setPos of hcs_line: sigPositionChanged, connected to
\* get_hcross_section, is emitted when the position changes
hcs_line_setPos(w, pos) ==
    IF FracEq(w.plot.hcs_pos, pos) THEN w
    ELSE get_hcross_section([w EXCEPT !.plot.hcs_pos = pos])

vcs_line_setPos(w, pos) ==
    IF FracEq(w.plot.vcs_pos, pos) THEN w
    ELSE get_vcross_section([w EXCEPT !.plot.vcs_pos = pos])

\* ColormapWidget.get_data_range: getDataRange(max, min, delta) to DataLabel.set_text
get_data_range(w) ==
    IF w.plot.image = None THEN w
    ELSE [w EXCEPT !.plot.data_label = [of |-> w.plot.image]]

ColormapWidget_set_image(w, image) ==
    LET w1 == [w EXCEPT !.plot.image = image,
                        !.XImageAxis = change_x_size(w.XImageAxis, image.shape[2]),
                        !.YImageAxis = change_y_size(w.YImageAxis, image.shape[1])]
    IN get_vcross_section(get_hcross_section(get_data_range(w1)))

\* ColormapWidget.change_line_pos: both positions are read before either line moves
change_line_pos(w, ratio) ==
    LET hcs_pos == w.plot.hcs_pos
        vcs_pos == w.plot.vcs_pos
        w1 == hcs_line_setPos(w, Frac(int(Frac(ratio[1] * hcs_pos[1], ratio[2] * hcs_pos[2])), 1))
    IN vcs_line_setPos(w1, Frac(int(Frac(ratio[1] * vcs_pos[1], ratio[2] * vcs_pos[2])), 1))

\* resize_image with the ratio of the old size to the new one
resize_image_inverse(w, image) ==
    LET old_image == w.plot.image
        ratio == Frac(old_image.shape[1], image.shape[1])
    IN change_line_pos(ColormapWidget_set_image(w, image), ratio)

resize_image(w, image) ==
    LET old_image == w.plot.image
        ratio == Frac(image.shape[1], old_image.shape[1])
    IN change_line_pos(ColormapWidget_set_image(w, image), ratio)

\* SurfacePlot.set_image(image, xrange, yrange); xrange, yrange may be None
SurfacePlot_set_image(w, image, xrange, yrange) ==
    LET w1 == ColormapWidget_set_image(w, image)
        w2 == [w1 EXCEPT !.XImageAxis = change_x_size(w1.XImageAxis, image.shape[2]),
                         !.YImageAxis = change_y_size(w1.YImageAxis, image.shape[1]),
                         !.plot.cs_range = [of |-> image]]
        w3 == IF xrange # None
              THEN [w2 EXCEPT !.XImageAxis = XImageAxis_change_data_range(w2.XImageAxis, xrange.v)]
              ELSE w2
    IN IF yrange # None
       THEN [w3 EXCEPT !.YImageAxis = YImageAxis_change_data_range(w3.YImageAxis, yrange.v)]
       ELSE w3

set_title(w, title) == [w EXCEPT !.plot.title = Str(title)]

\* 0 <= f < n for the fraction f (f[2] > 0)
Within(f, n) == 0 <= f[1] /\ f[1] < n * f[2]

\* image[row, column] of a 2-D array: an index from -size to size - 1
Index2(image, row, column) ==
    IF /\ -image.shape[1] <= row /\ row < image.shape[1]
       /\ -image.shape[2] <= column /\ column < image.shape[2]
    THEN Result(None, [image |-> image, row |-> row, column |-> column], NoError)
    ELSE Result(None, None, "IndexError")

\* get_cursor_data that unpacks image.shape as (width, height)
get_cursor_data_swapped(w, evt, cursor_point) ==
    LET image == w.plot.image
    IN IF image = None THEN w
       ELSE IF ~evt.inside THEN w
       ELSE IF Within(cursor_point[1], image.shape[1]) /\ Within(cursor_point[2], image.shape[2])
       THEN LET data == Index2(image, int(cursor_point[2]), int(cursor_point[1]))
            IN IF data.exc # NoError THEN Unhandled(w, data.exc)
               ELSE [w EXCEPT !.plot.cursor = [x |-> cursor_point[1], y |-> cursor_point[2],
                                               data |-> data.value]]
       ELSE w

\* SurfacePlot.get_cursor_data(evt): evt.inside is whether the widget's scene
\* rectangle contains the event's position, cursor_point = <<x, y>> is what
\* view_box.mapSceneToView makes of it when the event is handled
get_cursor_data(w, evt, cursor_point) ==
    LET image == w.plot.image
    IN IF image = None THEN w
       ELSE IF ~evt.inside THEN w
       ELSE IF Within(cursor_point[1], image.shape[2]) /\ Within(cursor_point[2], image.shape[1])
       THEN LET data == Index2(image, int(cursor_point[2]), int(cursor_point[1]))
            IN IF data.exc # NoError THEN Unhandled(w, data.exc)
               ELSE [w EXCEPT !.plot.cursor = [x |-> cursor_point[1], y |-> cursor_point[2],
                                               data |-> data.value]]
       ELSE w

\* CoordScatter.set_data: (p - min) / (max - min) * extent for every point;
\* a zero denominator is numpy's nan or inf, not an exception
set_data(w, xpoints, ypoints, shape) ==
    LET xmin == MinOf(Values(xpoints))
        xmax == MaxOf(Values(xpoints))
        ymin == MinOf(Values(ypoints))
        ymax == MaxOf(Values(ypoints))
    IN [w EXCEPT !.plot.coord =
           [x |-> [i \in 1..Len(xpoints) |-> Frac((xpoints[i] - xmin) * shape[2], xmax - xmin)],
            y |-> [i \in 1..Len(ypoints) |-> Frac((ypoints[i] - ymin) * shape[1], ymax - ymin)]]]

---------------------------------------------------------------------------
(* pathlib and the file system.  A path is addressed by its parts: the     *)
(* components between slashes, without the empty ones and without '.'.     *)
(* All paths are relative to the working directory, whose parts are <<>>.  *)

RECURSIVE SplitPath(_)
SplitPath(s) ==
    IF ~Has(s, "/") THEN <<s>>
    ELSE LET i == MinOf({k \in 1..Len(s) : s[k] = "/"})
         IN <<SubSeq(s, 1, i - 1)>> \o SplitPath(SubSeq(s, i + 1, Len(s)))

\* Path(s).parts
parts(s) == SelectSeq(SplitPath(s), LAMBDA c : c # <<>> /\ c # <<".">>)

parent(pp) == SubSeq(pp, 1, Len(pp) - 1)

is_dir(files, pp) == pp = <<>> \/ pp \in files.dirs

is_file(files, pp) == \E f \in files.files : f.path = pp

\* Path.exists()
exists(files, pp) == is_dir(files, pp) \/ is_file(files, pp)

\* the error of creating an entry whose parent is no directory
ParentError(files, pp) ==
    IF is_dir(files, parent(pp)) THEN NoError
    ELSE IF \E k \in 1..(Len(pp) - 1) : is_file(files, SubSeq(pp, 1, k))
    THEN "NotADirectoryError"
    ELSE "FileNotFoundError"

\* Path.mkdir(): parents=False, exist_ok=False
mkdir(w, pp) ==
    IF exists(w.fs, pp) THEN Unhandled(w, "FileExistsError")
    ELSE IF ParentError(w.fs, pp) # NoError THEN Unhandled(w, ParentError(w.fs, pp))
    ELSE [w EXCEPT !.fs.dirs = @ \cup {pp}]

\* open(filepath, 'w') and write: creates the file or replaces its content
write_file(w, pp, data) ==
    IF ParentError(w.fs, pp) # NoError THEN Unhandled(w, ParentError(w.fs, pp))
    ELSE IF pp \in w.fs.dirs THEN Unhandled(w, "IsADirectoryError")
    ELSE [w EXCEPT !.fs.files =
             {f \in @ : f.path # pp} \cup {[path |-> pp, data |-> data]}]

---------------------------------------------------------------------------
(* models/export.py: the Export object and the files it writes *)

\* Export(): root_dir=None
Export_init == [filename |-> None, root_dir |-> None]

Export_check_root_dir_exists(w) ==
    LET pp == parts(w.exporter.root_dir.v)
    IN IF ~exists(w.fs, pp) THEN mkdir(w, pp) ELSE w

\* the root_dir setter: the attribute is assigned before the directory is checked
root_dir_setter(w, dir_) ==
    Export_check_root_dir_exists(
        [w EXCEPT !.exporter.root_dir = Path(ReprNormalise(dir_))])

\* Export.set_root_dir(filename)
set_root_dir(self, filename) == [self EXCEPT !.filename = Str(replace_string(filename))]

Digit(n) == <<"0", "1", "2", "3", "4", "5", "6", "7", "8", "9">>[n + 1]

Digits2(n) == <<Digit((n \div 10) % 10), Digit(n % 10)>>

\* dt.datetime.now().strftime(r'%y%m%d%H%M%S_'), the clock counting the seconds
\* of the day 2000-01-01
strftime(clock) ==
    <<"0", "0", "0", "1", "0", "1">> \o Digits2(clock \div 3600)
        \o Digits2((clock \div 60) % 60) \o Digits2(clock % 60) \o <<"_">>

\* the file an export call addresses: self._root_dir / (now + filename + suffix + '.csv')
export_filepath(root_dir, clock, filename, suffix) ==
    parts(root_dir) \o parts(strftime(clock) \o filename \o suffix \o csv)

\* export_dataframe without the test for an unset root directory or filename:
\* None has no exists(), and a str and None do not concatenate
export_dataframe_unguarded(w, data, suffix) ==
    IF w.exporter.root_dir = None THEN Unhandled(w, "AttributeError")
    ELSE LET w1 == Export_check_root_dir_exists(w)
         IN IF w1.unhandled # NoError THEN w1
            ELSE IF w.exporter.filename = None THEN Unhandled(w1, "TypeError")
            ELSE write_file(w1,
                            export_filepath(w.exporter.root_dir.v, w.now,
                                            w.exporter.filename.v, suffix),
                            [format |-> "to_csv", data |-> data])

export_dataframe(w, data, suffix) ==
    IF w.exporter.root_dir = None \/ w.exporter.filename = None THEN w
    ELSE LET w1 == Export_check_root_dir_exists(w)
         IN IF w1.unhandled # NoError THEN w1
            ELSE write_file(w1,
                            export_filepath(w.exporter.root_dir.v, w.now,
                                            w.exporter.filename.v, suffix),
                            [format |-> "to_csv", data |-> data])

export_ndarray(w, data, suffix) ==
    IF w.exporter.root_dir = None \/ w.exporter.filename = None THEN w
    ELSE LET w1 == Export_check_root_dir_exists(w)
         IN IF w1.unhandled # NoError THEN w1
            ELSE write_file(w1,
                            export_filepath(w.exporter.root_dir.v, w.now,
                                            w.exporter.filename.v, suffix),
                            [format |-> "savetxt", data |-> data])

---------------------------------------------------------------------------
(* controllers/main_ctrl.py: the handlers *)

NoPoints == [x |-> <<>>, y |-> <<>>]

\* MainWindow.show_origin_coord
show_origin_coord(w) ==
    LET image == w.plot.image
        df == w.interpolate.original_data
    IN IF image = None THEN w
       ELSE IF ~w.coord_check THEN [w EXCEPT !.plot.coord = NoPoints]
       ELSE IF df.ncols < 2 THEN Unhandled(w, "IndexError")
       ELSE IF Len(df.rows) = 0 THEN Unhandled(w, "ValueError")
       ELSE set_data(w, original_x_coord(w.interpolate),
                     original_y_coord(w.interpolate), image.shape)

\* MainWindow.load_csv, with what the file dialog returned
load_csv(w, filepath, extension) ==
    IF extension # "*csv" THEN w
    ELSE
    LET r == set_filepath(w.interpolate, filepath)
        w1 == [w EXCEPT !.interpolate = r.self]
    IN IF r.exc \in {"NotCsvError", "IndexError"} THEN show_error_message(w1, r.exc)
       ELSE IF r.exc # NoError THEN Unhandled(w1, r.exc)
       ELSE
       LET filename == Stem(filepath)
           w2 == [set_title(w1, filename) EXCEPT
                     !.exporter = filename_setter(w1.exporter, filename)]
           c == calc_griddata(w2.interpolate, w2.method_combo)
       IN IF c.exc = "ValueError" THEN show_error_message(w2, c.exc)
          ELSE IF c.exc # NoError THEN Unhandled(w2, c.exc)
          ELSE
          LET xrange == get_coord_range(w2.interpolate, "x").value
              yrange == get_coord_range(w2.interpolate, "y").value
              w3 == SurfacePlot_set_image(w2, c.value, Tuple(xrange), Tuple(yrange))
              w4 == vcs_line_setPos(hcs_line_setPos(w3, Frac(0, 1)), Frac(0, 1))
          IN show_origin_coord(w4)

\* MainWindow.change_interpolate_num, the slot of intpola_num_spin.valueChanged
change_interpolate_num(w, points) ==
    LET w1 == [w EXCEPT !.intpola_num_spin = points,
                        !.interpolate.resolution = points]
    IN IF w1.plot.image = None THEN w1
       ELSE
       LET g == make_xy_grid(w1.interpolate)
           w2 == [w1 EXCEPT !.interpolate = g.self]
           c == calc_griddata(w2.interpolate, w2.method_combo)
       IN IF g.exc # NoError THEN Unhandled(w2, g.exc)
          ELSE IF c.exc # NoError THEN Unhandled(w2, c.exc)
          ELSE show_origin_coord(resize_image(w2, c.value))

\* MainWindow.change_interpolate_method, the slot of method_combo.currentTextChanged
change_interpolate_method(w, method) ==
    LET w1 == [w EXCEPT !.method_combo = method]
    IN IF w1.interpolate.original_data = None THEN w1
       ELSE LET c == calc_griddata(w1.interpolate, method)
            IN IF c.exc # NoError THEN Unhandled(w1, c.exc)
               ELSE SurfacePlot_set_image(w1, c.value, None, None)

\* f"{coord:.3f}": the sign, the integer digits, a point and three decimals
RECURSIVE DigitsOf(_)
DigitsOf(n) == IF n < 10 THEN <<Digit(n)>> ELSE DigitsOf(n \div 10) \o <<Digit(n % 10)>>

Format3(f) ==
    LET n == IF f[1] < 0 THEN -f[1] ELSE f[1]
        r == (2 * n * 1000 + f[2]) \div (2 * f[2])
    IN (IF f[1] < 0 THEN <<"-">> ELSE <<>>)
           \o DigitsOf(r \div 1000) \o <<".">>
           \o <<Digit((r \div 100) % 10), Digit((r \div 10) % 10), Digit(r % 10)>>

\* the characters of the text of method_combo
MethodChars(method) ==
    CASE method = "linear" -> <<"l", "i", "n", "e", "a", "r">>
      [] method = "cubic" -> <<"c", "u", "b", "i", "c">>
      [] method = "nearest" -> <<"n", "e", "a", "r", "e", "s", "t">>

\* seq[pos] of a 1-D array: an index from -len to len - 1, negative from the end
Index1(seq, pos) ==
    IF 0 <= pos /\ pos < Len(seq) THEN Result(None, seq[pos + 1], NoError)
    ELSE IF -Len(seq) <= pos /\ pos < 0 THEN Result(None, seq[Len(seq) + pos + 1], NoError)
    ELSE Result(None, None, "IndexError")

\* export.to_df(np.c_[coord, curve], (name, 'value')): np.c_ needs columns of one
\* length; a curve never plotted is None, which np.c_ cannot stack either
to_df(coord, curve, length, name) ==
    IF curve = None \/ length # Len(coord) THEN Result(None, None, "ValueError")
    ELSE Result(None,
                [type |-> "DataFrame", columns |-> <<name, "value">>, index |-> name,
                 rows |-> Len(coord), coord |-> coord, value |-> curve],
                NoError)

\* ip.make_intpola_image_at_coord(image, x, y): pd.DataFrame(data=image, columns=x, index=y)
make_intpola_image_at_coord(image, cols, idx) ==
    IF image.shape # <<Len(idx), Len(cols)>> THEN Result(None, None, "ValueError")
    ELSE Result(None,
                [type |-> "DataFrame", data |-> image, columns |-> cols, index |-> idx],
                NoError)

\* if selected[0]
export_image(w) ==
    export_ndarray(w, w.plot.image,
                   <<"_", "i", "m", "a", "g", "e", "_">> \o MethodChars(w.method_combo))

\* if selected[1]
export_image_coord(w) ==
    LET df == make_intpola_image_at_coord(w.plot.image, interpolated_x_coord(w.interpolate),
                                          interpolated_y_coord(w.interpolate))
    IN IF df.exc # NoError THEN Unhandled(w, df.exc)
       ELSE export_dataframe(w, df.value,
                <<"_", "i", "m", "a", "g", "e", "_", "c", "o", "o", "r", "d", "_">>
                    \o MethodChars(w.method_combo))

\* if selected[2]: the curve last plotted, the coordinate of the line's position
export_hcs(w) ==
    LET curve == w.plot.hcs_curve
        hcs_data == to_df(interpolated_x_coord(w.interpolate), curve,
                          IF curve = None THEN 0 ELSE curve.image.shape[2], "x")
        coord == Index1(interpolated_y_coord(w.interpolate), int(w.plot.hcs_pos))
    IN IF hcs_data.exc # NoError THEN Unhandled(w, hcs_data.exc)
       ELSE IF coord.exc # NoError THEN Unhandled(w, coord.exc)
       ELSE export_dataframe(w, hcs_data.value,
                <<"_", "h", "c", "s", "_">> \o Format3(coord.value) \o <<"_">>
                    \o MethodChars(w.method_combo))

\* if selected[3]
export_vcs(w) ==
    LET curve == w.plot.vcs_curve
        vcs_data == to_df(interpolated_y_coord(w.interpolate), curve,
                          IF curve = None THEN 0 ELSE curve.image.shape[1], "y")
        coord == Index1(interpolated_x_coord(w.interpolate), int(w.plot.vcs_pos))
    IN IF vcs_data.exc # NoError THEN Unhandled(w, vcs_data.exc)
       ELSE IF coord.exc # NoError THEN Unhandled(w, coord.exc)
       ELSE export_dataframe(w, vcs_data.value,
                <<"_", "v", "c", "s", "_">> \o Format3(coord.value) \o <<"_">>
                    \o MethodChars(w.method_combo))

\* MainWindow.export(selected), the slot of ExDialog.exportSelected; an exception
\* ends the slot, so the variants after it are not written
export(w, selected) ==
    LET w1 == IF selected[1] THEN export_image(w) ELSE w
        w2 == IF w1.unhandled = NoError /\ selected[2] THEN export_image_coord(w1) ELSE w1
        w3 == IF w2.unhandled = NoError /\ selected[3] THEN export_hcs(w2) ELSE w2
    IN IF w3.unhandled = NoError /\ selected[4] THEN export_vcs(w3) ELSE w3

---------------------------------------------------------------------------
(* Bounds and program constants *)

\* the resolutions the user sets are 1..MaxResolution (the spin box allows 1..100)
MaxResolution == 2

\* the user drags a marker line to -1/2 or to 1..MaxDrag
MaxDrag == 2

DefaultResolution == 10

DragPositions == {Frac(-1, 2)} \cup {Frac(n, 1) : n \in 1..MaxDrag}

\* before an export the user drags a marker line below the field, to -1, or
\* to MaxDrag
DialogDrags == {Frac(-1, 1), Frac(MaxDrag, 1)}

\* the view maps the cursor to -1/2, 1/2, ..., MaxCursor - 1/2 on either axis
MaxCursor == 3

CursorPoints == {Frac(2 * n - 1, 2) : n \in 0..MaxCursor}

\* the files picked while the markers are dragged
MarkerPicks == {<<"d", "/", "a", ".", "c", "s", "v">>, <<"l", ".", "c", "s", "v">>}

\* the paths picked where the path handling is studied
PathPicks == {<<"d", "/", "a", ".", "c", "s", "v">>} \cup {f.path : f \in QuotedFiles}

\* the files picked while the overlay is switched on and off
OverlayPicks == {<<"d", "/", "a", ".", "c", "s", "v">>, VerticalFile.path}

\* the names given to the filename setter have at most MaxNameLen characters
MaxNameLen == 4

NameAlphabet == {"a", "/", ":", DQuote}

Names == UNION {[1..n -> NameAlphabet] : n \in 0..MaxNameLen}

\* the clock runs from second 0 to second MaxClock
MaxClock == 1

\* exports are made while the file system holds fewer than MaxFiles files
MaxFiles == 2

\* the working directory at the start: empty, with a directory export, or with
\* a regular file export
InitialFileSystems ==
    { [dirs |-> {}, files |-> {}],
      [dirs |-> {<<<<"e", "x", "p", "o", "r", "t">>>>}, files |-> {}],
      [dirs |-> {}, files |-> {[path |-> <<<<"e", "x", "p", "o", "r", "t">>>>,
                                data |-> None]}] }

\* the directories given to the root_dir setter: ./export, x/y, o'k
ExportDirs ==
    { <<".", "/", "e", "x", "p", "o", "r", "t">>,
      <<"x", "/", "y">>,
      <<"o", SQuote, "k">> }

\* the argument of set_root_dir: a directory path
SetRootDirArgs == {<<"x", "/", "y">>}

ExportNames == {<<"b", "/", "/", "c">>}

ExportSuffixes == {<<"_", "h", "c", "s">>, <<"_", "v", "c", "s">>}

ExportArrays == {NdArray(<<<<1>>>>)}

ExportFrames == {DataFrame(2, <<<<0, 2>>>>)}

---------------------------------------------------------------------------
(* The state machine *)

\* main_ctrl is imported and the window is built
Constructed ==
    /\ interpolate = [original_data |-> None, x_grid |-> None, y_grid |-> None,
                      resolution |-> DefaultResolution]
    /\ XImageAxis = [points |-> 1, range_ |-> <<0, 1>>, coe |-> Frac(1, 1)]
    /\ YImageAxis = [points |-> 1, range_ |-> <<0, 1>>, coe |-> Frac(1, 1)]
    /\ plot = [image |-> None, title |-> Str(<<>>),
               hcs_pos |-> Frac(0, 1), vcs_pos |-> Frac(0, 1),
               hcs_curve |-> None, vcs_curve |-> None,
               hcs_label |-> None, vcs_label |-> None,
               coord |-> NoPoints, data_label |-> None, cs_range |-> None,
               cursor |-> None]
    /\ method_combo = "linear"
    /\ intpola_num_spin = DefaultResolution
    /\ coord_check = FALSE
    /\ proxy = None
    /\ now = 0
    /\ outcome = [handler |-> "init", args |-> <<>>,
                  shown |-> NoError, unhandled |-> NoError]
    /\ crashed = FALSE

\* the program started through main(), in a working directory in which the
\* root_dir setter found or made the directory ./export
Init ==
    /\ Constructed
    /\ exporter = [filename |-> None,
                   root_dir |-> Path(ReprNormalise(<<".", "/", "e", "x", "p", "o", "r", "t">>))]
    /\ fs = [dirs |-> {<<<<"e", "x", "p", "o", "r", "t">>>>}, files |-> {}]

\* the Export object as constructed, before any setter is called
InitExport ==
    /\ Constructed
    /\ exporter = Export_init
    /\ fs \in InitialFileSystems

\* the handler ran to its end, or an exception escaped it: PyQt5 (5.5 and later,
\* no sys.excepthook installed) then aborts the process with qFatal()
Commit(handler, args, w) ==
    /\ interpolate' = w.interpolate
    /\ exporter' = w.exporter
    /\ XImageAxis' = w.XImageAxis
    /\ YImageAxis' = w.YImageAxis
    /\ plot' = w.plot
    /\ method_combo' = w.method_combo
    /\ intpola_num_spin' = w.intpola_num_spin
    /\ coord_check' = w.coord_check
    /\ proxy' = w.proxy
    /\ fs' = w.fs
    /\ now' = w.now
    /\ outcome' = [handler |-> handler, args |-> args,
                   shown |-> w.shown, unhandled |-> w.unhandled]
    /\ crashed' = (w.unhandled # NoError)

LoadCsv(filepath, extension) ==
    /\ ~crashed
    /\ Commit("load_csv", <<filepath, extension>>, load_csv(World, filepath, extension))

ChangeInterpolateNum(points) ==
    /\ ~crashed
    /\ points # intpola_num_spin
    /\ Commit("change_interpolate_num", <<points>>, change_interpolate_num(World, points))

ChangeInterpolateMethod(method) ==
    /\ ~crashed
    /\ method # method_combo
    /\ Commit("change_interpolate_method", <<method>>, change_interpolate_method(World, method))

ToggleCoordCheck ==
    /\ ~crashed
    /\ Commit("show_origin_coord", <<>>,
              show_origin_coord([World EXCEPT !.coord_check = ~coord_check]))

DragHcsLine(pos) ==
    /\ ~crashed
    /\ Commit("get_hcross_section", <<pos>>, hcs_line_setPos(World, pos))

DragVcsLine(pos) ==
    /\ ~crashed
    /\ Commit("get_vcross_section", <<pos>>, vcs_line_setPos(World, pos))

\* scene().sigMouseMoved reaches the SignalProxy, which keeps the latest event
MouseMoved(inside) ==
    /\ ~crashed
    /\ Commit("sigMouseMoved", <<inside>>, [World EXCEPT !.proxy = [inside |-> inside]])

\* the SignalProxy's timer delivers the event it kept to get_cursor_data
DeliverCursor(cursor_point) ==
    /\ ~crashed
    /\ proxy # None
    /\ Commit("get_cursor_data", <<proxy, cursor_point>>,
              get_cursor_data([World EXCEPT !.proxy = None], proxy, cursor_point))

RootDirSetter(dir_) ==
    /\ ~crashed
    /\ Commit("root_dir", <<dir_>>, root_dir_setter(World, dir_))

FilenameSetter(name) ==
    /\ ~crashed
    /\ Commit("filename", <<name>>,
              [World EXCEPT !.exporter = filename_setter(exporter, name)])

SetRootDir(filename) ==
    /\ ~crashed
    /\ Commit("set_root_dir", <<filename>>,
              [World EXCEPT !.exporter = set_root_dir(exporter, filename)])

ExportDataframe(data, suffix) ==
    /\ ~crashed
    /\ Cardinality(fs.files) < MaxFiles
    /\ Commit("export_dataframe", <<data, suffix>>, export_dataframe(World, data, suffix))

ExportNdarray(data, suffix) ==
    /\ ~crashed
    /\ Cardinality(fs.files) < MaxFiles
    /\ Commit("export_ndarray", <<data, suffix>>, export_ndarray(World, data, suffix))

\* MainWindow.show_export_dialog opens the modal dialog when a field is
\* displayed; ExDialog.clicked_ok emits the four check boxes to MainWindow.export
Export(selected) ==
    /\ ~crashed
    /\ plot.image # None
    /\ Cardinality(fs.files) < MaxFiles
    /\ Commit("export", <<selected>>, export(World, selected))

\* a second passes
Tick ==
    /\ ~crashed
    /\ now < MaxClock
    /\ Commit("tick", <<>>, [World EXCEPT !.now = now + 1])

\* Spec: the file, resolution, method and overlay handlers.  The marker lines
\* stay where the handlers put them; dragging them is DragHcsLine, DragVcsLine.
Next ==
    \/ \E picked \in DialogResults : LoadCsv(picked[1], picked[2])
    \/ \E points \in 1..MaxResolution : ChangeInterpolateNum(points)
    \/ \E method \in Methods : ChangeInterpolateMethod(method)
    \/ ToggleCoordCheck

Spec == Init /\ [][Next]_vars

\* SpecMarkers: files are loaded, the resolution is changed, the marker
\* lines are dragged and the overlay of the sample points is switched
NextMarkers ==
    \/ \E filepath \in MarkerPicks : LoadCsv(filepath, "*csv")
    \/ \E points \in 1..MaxResolution : ChangeInterpolateNum(points)
    \/ \E pos \in DragPositions : DragHcsLine(pos)
    \/ \E pos \in DragPositions : DragVcsLine(pos)
    \/ ToggleCoordCheck

SpecMarkers == Init /\ [][NextMarkers]_vars

\* SpecDialog: a file is loaded, the resolution is changed and the marker lines
\* are dragged until the first file is exported; the displayed field is
\* exported while the file system holds fewer than MaxFiles files
NextDialog ==
    \/ fs.files = {} /\ LoadCsv(<<"d", "/", "a", ".", "c", "s", "v">>, "*csv")
    \/ fs.files = {} /\ \E points \in 1..MaxResolution : ChangeInterpolateNum(points)
    \/ fs.files = {} /\ \E pos \in DialogDrags : DragHcsLine(pos)
    \/ fs.files = {} /\ \E pos \in DialogDrags : DragVcsLine(pos)
    \/ \E selected \in [1..4 -> BOOLEAN] : Export(selected)

SpecDialog == Init /\ [][NextDialog]_vars

\* SpecPaths: files with quotes and backslashes in their names are loaded,
\* the resolution is changed and the overlay is switched
NextPaths ==
    \/ \E filepath \in PathPicks : LoadCsv(filepath, "*csv")
    \/ \E points \in 1..MaxResolution : ChangeInterpolateNum(points)
    \/ ToggleCoordCheck

SpecPaths == Init /\ [][NextPaths]_vars

\* SpecOverlay: files are loaded, the method and the resolution are changed
\* and the overlay of the sample points is switched on and off
NextOverlay ==
    \/ \E filepath \in OverlayPicks : LoadCsv(filepath, "*csv")
    \/ \E method \in Methods : ChangeInterpolateMethod(method)
    \/ \E points \in 1..MaxResolution : ChangeInterpolateNum(points)
    \/ ToggleCoordCheck

SpecOverlay == Init /\ [][NextOverlay]_vars

\* SpecCursor: files are loaded and the resolution is changed while the mouse
\* moves and the proxy delivers the moves later
NextCursor ==
    \/ LoadCsv(<<"d", "/", "a", ".", "c", "s", "v">>, "*csv")
    \/ \E points \in 1..MaxResolution : ChangeInterpolateNum(points)
    \/ \E inside \in BOOLEAN : MouseMoved(inside)
    \/ \E x, y \in CursorPoints : DeliverCursor(<<x, y>>)

SpecCursor == Init /\ [][NextCursor]_vars

\* SpecExport: the Export object used by its setters and export operations
NextExport ==
    \/ \E dir_ \in ExportDirs : RootDirSetter(dir_)
    \/ \E name \in ExportNames : FilenameSetter(name)
    \/ \E filename \in SetRootDirArgs : SetRootDir(filename)
    \/ \E data \in ExportFrames, suffix \in ExportSuffixes : ExportDataframe(data, suffix)
    \/ \E data \in ExportArrays, suffix \in ExportSuffixes : ExportNdarray(data, suffix)
    \/ Tick

SpecExport == InitExport /\ [][NextExport]_vars

\* SpecSanitize: the filename setter applied to every name of the bounded set
NextSanitize == \E name \in Names : FilenameSetter(name)

SpecSanitize == InitExport /\ [][NextSanitize]_vars

---------------------------------------------------------------------------
(* Properties *)

FileAt(path) == CHOOSE f \in Disk : f.path = path

\* the point set has x and y columns and at least one row
HasXY(df) == df # None /\ df.ncols >= 2 /\ Len(df.rows) > 0

DistinctX(df) == Cardinality(Values(Column(df, 0)))

DistinctY(df) == Cardinality(Values(Column(df, 1)))

\* the step just taken is load_csv on a file picked under the '*csv' filter
Loaded == outcome.handler = "load_csv" /\ outcome.args[2] = "*csv"

PriorStateIntact ==
    /\ plot'.image = plot.image
    /\ plot'.title = plot.title
    /\ interpolate'.original_data = interpolate.original_data
    /\ interpolate'.x_grid = interpolate.x_grid
    /\ interpolate'.y_grid = interpolate.y_grid
    /\ exporter'.filename = exporter.filename

\* C1: a load of a file that parses (three columns or more) but whose
\* interpolation raises the domain error shows an error message and leaves the
\* displayed image and title, the point set, the sampling grid and the
\* exporter's filename stem as they were before the load.
C1_FailedInterpolationLeavesStateIntact ==
    [][(Loaded' /\ FileAt(outcome'.args[1]).ncols >= 3 /\ outcome'.shown = "ValueError")
          => PriorStateIntact]_vars

\* C2: no handler ends with an exception that was not caught and shown.
C2_NoFailureEscapes == outcome.unhandled = NoError

\* C3: whenever a field is displayed, its shape is that of the current
\* sampling grid: (len(interpolated_y_coord), len(interpolated_x_coord)).
C3_ImageHasGridShape ==
    plot.image # None =>
        /\ interpolate.x_grid # None
        /\ plot.image.shape = <<Len(interpolated_y_coord(interpolate)),
                                Len(interpolated_x_coord(interpolate))>>

\* C4: whenever a point set with k distinct x and m distinct y values is loaded,
\* the sampling grid has the shape (m * resolution, k * resolution) for the
\* current resolution.
C4_GridFollowsResolution ==
    HasXY(interpolate.original_data) =>
        /\ interpolate.x_grid # None
        /\ Shape(interpolate.x_grid) =
               <<DistinctY(interpolate.original_data) * interpolate.resolution,
                 DistinctX(interpolate.original_data) * interpolate.resolution>>

GridMatches(self) ==
    LET k == DistinctX(self.original_data)
        m == DistinctY(self.original_data)
        n == self.resolution
    IN /\ HasXY(self.original_data)
       /\ Shape(self.x_grid) = <<m * n, k * n>>
       /\ Shape(self.y_grid) = <<m * n, k * n>>
       /\ Len(interpolated_x_coord(self)) = k * n
       /\ Len(interpolated_y_coord(self)) = m * n

\* C5: every sampling grid make_xy_grid stores has x_grid and y_grid of the shape
\* (m * n, k * n), with k * n x coordinates and m * n y coordinates, for the
\* point set and the resolution n it was built from.
C5_MakeXyGridShape ==
    [][(interpolate'.x_grid # interpolate.x_grid \/ interpolate'.y_grid # interpolate.y_grid)
          => GridMatches(interpolate')]_vars

\* a grid built by a resolution change, for a point set with k # m
C5_Witness ==
    /\ outcome.handler = "change_interpolate_num"
    /\ outcome.unhandled = NoError
    /\ plot.image # None
    /\ interpolate.resolution # DefaultResolution
    /\ DistinctX(interpolate.original_data) # DistinctY(interpolate.original_data)
    /\ GridMatches(interpolate)

\* C6: picking a file that lacks the .csv suffix or has fewer than three columns
\* shows an error message and leaves the point set, the grid, the image, the
\* title and the exporter's filename stem as they were.
C6_FormatErrorChangesNothing ==
    [][(Loaded' /\ (Suffix(outcome'.args[1]) # csv \/ FileAt(outcome'.args[1]).ncols < 3))
          => (outcome'.shown # NoError /\ PriorStateIntact)]_vars

\* C7: whenever a .csv file whose table has two columns or fewer is loaded,
\* the call of set_filepath raises NotCsvError or IndexError.
C7_FewColumnsRaiseFormatError ==
    [][(Loaded' /\ Suffix(outcome'.args[1]) = csv /\ FileAt(outcome'.args[1]).ncols <= 2)
          => set_filepath(interpolate, outcome'.args[1]).exc
                 \in {"NotCsvError", "IndexError"}]_vars

\* C8: a load of a path whose suffix is not '.csv' ends in NotCsvError, raised
\* before the file is read (an unreadable file raises nothing else) and with
\* original_data, x_grid and y_grid as they were.
C8_NotCsvRaisedBeforeAnyChange ==
    [][(Loaded' /\ Suffix(outcome'.args[1]) # csv)
          => /\ outcome'.shown = "NotCsvError"
             /\ outcome'.unhandled = NoError
             /\ interpolate' = interpolate
             /\ set_filepath(interpolate, outcome'.args[1]) =
                    Result(interpolate, None, "NotCsvError")]_vars

\* a file without the suffix was refused while a point set was loaded
C8_Witness ==
    /\ Loaded
    /\ Suffix(outcome.args[1]) # csv
    /\ outcome.shown = "NotCsvError"
    /\ interpolate.original_data # None
    /\ interpolate.x_grid # None

\* three or more points in two coordinate columns, all on one line, with a grid
CollinearLoaded ==
    /\ HasXY(interpolate.original_data)
    /\ interpolate.original_data.ncols = 3
    /\ Len(interpolate.original_data.rows) >= 3
    /\ interpolate.x_grid # None
    /\ Degenerate(interpolate.original_data.rows)

\* C9: on collinear points calc_griddata raises ValueError for linear and cubic
\* and returns a field for nearest; the library's QhullError never leaves it.
C9_CollinearDomainError ==
    /\ outcome.shown # "QhullError"
    /\ outcome.unhandled # "QhullError"
    /\ CollinearLoaded =>
          /\ \A method \in {"linear", "cubic"} :
                 calc_griddata(interpolate, method) = Result(interpolate, None, "ValueError")
          /\ calc_griddata(interpolate, "nearest").exc = NoError
          /\ calc_griddata(interpolate, "nearest").value # None

\* the collinear file was loaded and its interpolation failed and was shown
C9_Witness ==
    /\ Loaded
    /\ CollinearLoaded
    /\ method_combo \in {"linear", "cubic"}
    /\ outcome.shown = "ValueError"

\* points >= 1, coe = (range_max - range_min) / points with a non-zero divisor,
\* and the tick of index i is range_min + i * (range_max - range_min) / points
AxisMappingOk(cls) ==
    /\ cls.points >= 1
    /\ cls.coe[2] # 0
    /\ FracEq(cls.coe, Frac(cls.range_[2] - cls.range_[1], cls.points))
    /\ \A i \in 0..cls.points :
           FracEq(tickValue(cls, i),
                  Frac(cls.range_[1] * cls.points + i * (cls.range_[2] - cls.range_[1]),
                       cls.points))

\* C10: for both axis mappings, after every sequence of size and range updates
\* the handlers issue, points >= 1 and coe = (range_max - range_min) / points.
C10_AxisMappingConsistent == AxisMappingOk(XImageAxis) /\ AxisMappingOk(YImageAxis)

\* the size was updated after the range was set (a resolution change after a load)
C10_Witness ==
    /\ outcome.handler = "change_interpolate_num"
    /\ outcome.unhandled = NoError
    /\ plot.image # None
    /\ XImageAxis.points = plot.image.shape[2]
    /\ XImageAxis.points > 1
    /\ XImageAxis.range_ # <<0, 1>>
    /\ YImageAxis.points = plot.image.shape[1]

---------------------------------------------------------------------------
(* Cross-section markers, overlay points and the cursor *)

\* the index a marker line at position pos addresses
MarkerIndex(pos) == int(pos)

ValidRow(image, i) == image # None /\ 0 <= i /\ i < image.shape[1]

ValidColumn(image, i) == image # None /\ 0 <= i /\ i < image.shape[2]

\* C11: when a marker line is moved to a valid index i of the displayed field,
\* the coordinate written to the cross-section label is the axis mapping's
\* conversion of i: range_min + i * (range_max - range_min) / points, for the
\* horizontal marker on the y axis and for the vertical marker on the x axis.
C11_LabelIsAxisConversion ==
    /\ [][(outcome'.handler = "get_hcross_section"
             /\ ValidRow(plot'.image, MarkerIndex(plot'.hcs_pos)))
          => /\ plot'.hcs_label # None
             /\ FracEq(plot'.hcs_label.v,
                       tickValue(YImageAxis', MarkerIndex(plot'.hcs_pos)))]_vars
    /\ [][(outcome'.handler = "get_vcross_section"
             /\ ValidColumn(plot'.image, MarkerIndex(plot'.vcs_pos)))
          => /\ plot'.vcs_label # None
             /\ FracEq(plot'.vcs_label.v,
                       tickValue(XImageAxis', MarkerIndex(plot'.vcs_pos)))]_vars

\* a pixel position that is a number (not numpy's nan or inf)
IsNumber(f) == f[2] # 0

\* the overlay shown is what set_data makes of the current point set and field
OverlayCurrent ==
    /\ plot.image # None
    /\ HasXY(interpolate.original_data)
    /\ plot.coord # NoPoints
    /\ plot.coord = set_data(World, original_x_coord(interpolate),
                             original_y_coord(interpolate), plot.image.shape).plot.coord

\* the axis mapping is that of the overlay: its range is the range of the
\* points and its pixel extent is the extent set_data was given
MappingOf(cls, points, extent) ==
    /\ cls.range_ = <<MinOf(Values(points)), MaxOf(Values(points))>>
    /\ cls.points = extent
    /\ extent >= 1

RoundTrips(cls, points, pixels) ==
    \A i \in 1..Len(points) :
        /\ IsNumber(pixels[i])
        /\ FracEq(tickValueAt(cls, pixels[i]), Frac(points[i], 1))

\* C12: for an axis mapping with pixel extent >= 1, the pixel position
\* set_data computes for a real coordinate v of the overlay, converted back by
\* the axis mapping's coe * position + range_min, is v.
C12_RoundTrip ==
    OverlayCurrent =>
        /\ MappingOf(XImageAxis, original_x_coord(interpolate), plot.image.shape[2])
               => RoundTrips(XImageAxis, original_x_coord(interpolate), plot.coord.x)
        /\ MappingOf(YImageAxis, original_y_coord(interpolate), plot.image.shape[1])
               => RoundTrips(YImageAxis, original_y_coord(interpolate), plot.coord.y)

---------------------------------------------------------------------------
(* The exporter *)

\* each character of the name on its own: '-' for an illegal one, else itself
ReplacedEach(name) ==
    [i \in 1..Len(name) |-> IF name[i] \in NOT_USED_STRING THEN REPLACE_STRING ELSE name[i]]

\* C13: the filename setter stores a stem of the length of the name it was
\* given, with '-' at the position of every illegal character (runs are not
\* collapsed) and every other character unchanged.
C13_SanitizeEachCharacter ==
    outcome.handler = "filename" =>
        /\ exporter.filename # None
        /\ Len(exporter.filename.v) = Len(outcome.args[1])
        /\ exporter.filename.v = ReplacedEach(outcome.args[1])

Exported == outcome.handler \in {"export_dataframe", "export_ndarray"}

\* C14: export_dataframe and export_ndarray called while the root directory or
\* the filename stem is unset write no file, create no directory, raise no
\* exception and leave the Export object as it was.
C14_UnsetExportDoesNothing ==
    [][(Exported' /\ (exporter.root_dir = None \/ exporter.filename = None))
          => /\ fs' = fs
             /\ exporter' = exporter
             /\ outcome'.unhandled = NoError]_vars

\* export_dataframe was called with the filename set and the root directory unset
C14_Witness ==
    /\ outcome.handler = "export_dataframe"
    /\ outcome.unhandled = NoError
    /\ exporter.root_dir = None
    /\ exporter.filename # None
    /\ fs.files = {}

\* C16: setting the output root to a path leaves the directory of that path
\* existing and root_dir equal to the path, without an error; setting the same
\* path a second time changes neither the file system nor the Export object.
C16_RootDirCreatedIdempotent ==
    [][outcome'.handler = "root_dir"
          => /\ outcome'.unhandled = NoError
             /\ is_dir(fs', parts(outcome'.args[1]))
             /\ exporter'.root_dir # None
             /\ parts(exporter'.root_dir.v) = parts(outcome'.args[1])
             /\ (outcome.handler = "root_dir" /\ outcome.args = outcome'.args)
                    => (fs' = fs /\ exporter' = exporter)]_vars

\* root/<timestamp>_<name><suffix>.csv, the timestamp to the second
ExpectedPath(root, clock, name, suffix) ==
    parts(root) \o <<strftime(clock) \o name \o suffix \o csv>>

\* what the export operation writes: savetxt for an array, to_csv for a frame
Written(handler, data) ==
    [format |-> IF handler = "export_ndarray" THEN "savetxt" ELSE "to_csv", data |-> data]

\* C15: with root and name set, an export call writes exactly one file, at
\* root/<timestamp>_<name><suffix>.csv: the file of that path holds the data of
\* the call (replacing what an earlier export in the same second with the same
\* name and suffix wrote) and no other file changes; with the same root and
\* name, calls with different suffixes never address the same path.
C15_ExportWritesOneFile ==
    /\ [][(Exported' /\ exporter.root_dir # None /\ exporter.filename # None)
             => LET path == ExpectedPath(exporter.root_dir.v, now, exporter.filename.v,
                                         outcome'.args[2])
                IN /\ outcome'.unhandled = NoError
                   /\ fs'.files = {f \in fs.files : f.path # path}
                          \cup {[path |-> path,
                                 data |-> Written(outcome'.handler, outcome'.args[1])]}]_vars
    /\ [](\A s1, s2 \in ExportSuffixes : \A t1, t2 \in 0..MaxClock :
             (exporter.root_dir # None /\ exporter.filename # None /\ s1 # s2)
                 => ExpectedPath(exporter.root_dir.v, t1, exporter.filename.v, s1)
                        # ExpectedPath(exporter.root_dir.v, t2, exporter.filename.v, s2))

---------------------------------------------------------------------------
(* The displayed field *)

\* the points and values calc_griddata takes from a point set
KnewPoints(df) == [i \in 1..Len(df.rows) |-> SubSeq(df.rows[i], 1, df.ncols - 1)]

KnewValues(df) == Column(df, df.ncols - 1)

\* C17: whenever a field is displayed, it was computed from the currently
\* loaded point set, and the real-value ranges of the x and y axis mappings are
\* the coordinate ranges of that point set.
C17_FieldAndRangesOfLoadedPoints ==
    plot.image # None =>
        /\ HasXY(interpolate.original_data)
        /\ plot.image.points = KnewPoints(interpolate.original_data)
        /\ plot.image.values = KnewValues(interpolate.original_data)
        /\ XImageAxis.range_ = get_coord_range(interpolate, "x").value
        /\ YImageAxis.range_ = get_coord_range(interpolate, "y").value

\* C18: a method change while a file is loaded recomputes the field with the
\* new method from the loaded point set and displays it, and leaves the point
\* set, the resolution, the grids, the axis ranges and the exporter unchanged;
\* a method change while no file is loaded changes nothing.
C18_MethodChangeFrame ==
    [][outcome'.handler = "change_interpolate_method"
          => IF interpolate.original_data # None
             THEN /\ plot'.image # None
                  /\ plot'.image.method = outcome'.args[1]
                  /\ plot'.image.points = KnewPoints(interpolate.original_data)
                  /\ plot'.image.values = KnewValues(interpolate.original_data)
                  /\ interpolate' = interpolate
                  /\ XImageAxis'.range_ = XImageAxis.range_
                  /\ YImageAxis'.range_ = YImageAxis.range_
                  /\ exporter' = exporter
             ELSE /\ interpolate' = interpolate
                  /\ plot' = plot
                  /\ XImageAxis' = XImageAxis
                  /\ YImageAxis' = YImageAxis
                  /\ exporter' = exporter
                  /\ outcome'.unhandled = NoError]_vars

\* C19: in the program started through main(), whenever a field is displayed
\* (the condition under which show_export_dialog opens the dialog) the
\* exporter's filename stem and root directory are both set.
C19_ExportOfferedWithNameAndRoot ==
    plot.image # None => (exporter.filename # None /\ exporter.root_dir # None)

\* a field is displayed and the stem is that of the file loaded
C19_Witness ==
    /\ plot.image # None
    /\ outcome.handler = "load_csv"
    /\ outcome.shown = NoError
    /\ exporter.filename = Str(Stem(outcome.args[1]))
    /\ exporter.root_dir # None

\* the cursor point lies in the field: 0 <= x < columns and 0 <= y < rows
InField(image, cursor_point) ==
    /\ Within(cursor_point[1], image.shape[2])
    /\ Within(cursor_point[2], image.shape[1])

\* C20: a cursor move delivered by the proxy changes nothing when no field is
\* displayed, when the event lies outside the widget or when the cursor point
\* lies outside the field displayed at that moment; otherwise it reads
\* image[int(y), int(x)] of that field with 0 <= int(y) < rows and
\* 0 <= int(x) < columns, and no index error arises.
C20_CursorReadsInsideField ==
    [][outcome'.handler = "get_cursor_data"
          => LET evt == outcome'.args[1]
                 cursor_point == outcome'.args[2]
             IN /\ outcome'.unhandled = NoError
                /\ plot'.image = plot.image
                /\ IF plot.image = None \/ ~evt.inside \/ ~InField(plot.image, cursor_point)
                   THEN plot' = plot
                   ELSE /\ plot'.cursor # None
                        /\ plot'.cursor.data.image = plot.image
                        /\ plot'.cursor.data.row = int(cursor_point[2])
                        /\ plot'.cursor.data.column = int(cursor_point[1])
                        /\ 0 <= plot'.cursor.data.row
                        /\ plot'.cursor.data.row < plot.image.shape[1]
                        /\ 0 <= plot'.cursor.data.column
                        /\ plot'.cursor.data.column < plot.image.shape[2]]_vars

\* the last row and the last column of a field smaller than the first one
\* displayed were read
C20_Witness ==
    /\ outcome.handler = "get_cursor_data"
    /\ plot.image # None
    /\ plot.image.shape # <<2 * DefaultResolution, 3 * DefaultResolution>>
    /\ plot.cursor # None
    /\ plot.cursor.data.image = plot.image
    /\ plot.cursor.data.row = plot.image.shape[1] - 1
    /\ plot.cursor.data.column = plot.image.shape[2] - 1

---------------------------------------------------------------------------
(* The export action *)

IsDigit(c) == c \in {"0", "1", "2", "3", "4", "5", "6", "7", "8", "9"}

\* a number written with three decimals: -?digits.ddd
IsDecimal3(t) ==
    LET u == IF t # <<>> /\ Head(t) = "-" THEN Tail(t) ELSE t
    IN /\ Len(u) >= 5
       /\ u[Len(u) - 3] = "."
       /\ \A k \in 1..Len(u) : k # Len(u) - 3 => IsDigit(u[k])

StartsWith(t, prefix) == Len(t) >= Len(prefix) /\ SubSeq(t, 1, Len(prefix)) = prefix

EndsWith(t, tail) == Len(t) >= Len(tail) /\ SubSeq(t, Len(t) - Len(tail) + 1, Len(t)) = tail

\* <prefix><coord>_<method> with a three-decimal coord
IsSectionSuffix(t, prefix, method) ==
    /\ StartsWith(t, prefix)
    /\ EndsWith(t, <<"_">> \o MethodChars(method))
    /\ IsDecimal3(SubSeq(t, Len(prefix) + 1, Len(t) - Len(MethodChars(method)) - 1))

\* the suffix of an exported file: its name without the timestamp, the stem of
\* the exporter and .csv
SuffixOfFile(f, stem) ==
    LET name == f.path[Len(f.path)]
    IN SubSeq(name, Len(strftime(0)) + Len(stem) + 1, Len(name) - Len(csv))

\* the variant a suffix belongs to
VariantOf(t, method) ==
    IF t = <<"_", "i", "m", "a", "g", "e", "_">> \o MethodChars(method) THEN 1
    ELSE IF t = <<"_", "i", "m", "a", "g", "e", "_", "c", "o", "o", "r", "d", "_">>
                    \o MethodChars(method) THEN 2
    ELSE IF IsSectionSuffix(t, <<"_", "h", "c", "s", "_">>, method) THEN 3
    ELSE IF IsSectionSuffix(t, <<"_", "v", "c", "s", "_">>, method) THEN 4
    ELSE 0

\* the data of variant v is what the claim says of it
VariantData(v, data) ==
    LET x == interpolated_x_coord(interpolate)
        y == interpolated_y_coord(interpolate)
    IN CASE v = 1 -> data = [format |-> "savetxt", data |-> plot.image]
         [] v = 2 -> /\ data.format = "to_csv"
                     /\ data.data.data = plot.image
                     /\ data.data.columns = x
                     /\ data.data.index = y
         [] v = 3 -> /\ data.format = "to_csv"
                     /\ data.data.columns = <<"x", "value">>
                     /\ data.data.rows = Len(x)
                     /\ data.data.coord = x
         [] v = 4 -> /\ data.format = "to_csv"
                     /\ data.data.columns = <<"y", "value">>
                     /\ data.data.rows = Len(y)
                     /\ data.data.coord = y
         [] OTHER -> FALSE

\* C21: an export with toggles (image, image_coord, hcs, vcs) writes exactly
\* the selected variants: for every True toggle one file, with the suffix
\* _image_<method>, _image_coord_<method>, _hcs_<coord>_<method> or
\* _vcs_<coord>_<method> and the data of the variant (the horizontal table has
\* the columns (x, value) and one row per grid column, the vertical table
\* (y, value) and one row per grid row), and no file for a False toggle.
C21_ExportWritesSelected ==
    [][outcome'.handler = "export"
          => LET selected == outcome'.args[1]
                 written == fs'.files \ fs.files
                 IsVariant(f, v) ==
                     /\ f.path = ExpectedPath(exporter.root_dir.v, now, exporter.filename.v,
                                              SuffixOfFile(f, exporter.filename.v))
                     /\ VariantOf(SuffixOfFile(f, exporter.filename.v), method_combo) = v
                     /\ VariantData(v, f.data)
             IN /\ outcome'.unhandled = NoError
                /\ \A v \in 1..4 :
                       selected[v] => Cardinality({f \in fs'.files : IsVariant(f, v)}) = 1
                /\ \A f \in written : \E v \in 1..4 : selected[v] /\ IsVariant(f, v)]_vars

---------------------------------------------------------------------------
(* Resolution changes *)

\* the position pos lies in the field's extent [0, size)
InsideField(pos, size) == pos[1] >= 0 /\ pos[1] < size * pos[2]

\* the position a marker at pos is moved to when the row count changes
MovedPosition(old_image, new_image, pos) ==
    Frac(int(Frac(new_image.shape[1] * pos[1], old_image.shape[1] * pos[2])), 1)

\* C22: after a successful resolution change with an image displayed, each
\* marker is at int(ratio * old position), ratio = new row count / old row
\* count; a marker that was inside the old field is inside the new one, and
\* its curve and label are the row (column) of the new field at the marker's
\* new index and that row's (column's) coordinate; the overlay is that of the
\* new field's shape if the check box is set and empty otherwise.
C22_ResolutionChangeMovesMarkers ==
    [][(outcome'.handler = "change_interpolate_num" /\ outcome'.unhandled = NoError
          /\ plot.image # None)
       => /\ FracEq(plot'.hcs_pos, MovedPosition(plot.image, plot'.image, plot.hcs_pos))
          /\ FracEq(plot'.vcs_pos, MovedPosition(plot.image, plot'.image, plot.vcs_pos))
          /\ InsideField(plot.hcs_pos, plot.image.shape[1])
                => /\ InsideField(plot'.hcs_pos, plot'.image.shape[1])
                   /\ plot'.hcs_curve = [image |-> plot'.image, row |-> int(plot'.hcs_pos)]
                   /\ FracEq(plot'.hcs_label.v,
                             interpolated_y_coord(interpolate')[int(plot'.hcs_pos) + 1])
          /\ InsideField(plot.vcs_pos, plot.image.shape[2])
                => /\ InsideField(plot'.vcs_pos, plot'.image.shape[2])
                   /\ plot'.vcs_curve = [image |-> plot'.image, column |-> int(plot'.vcs_pos)]
                   /\ FracEq(plot'.vcs_label.v,
                             interpolated_x_coord(interpolate')[int(plot'.vcs_pos) + 1])
          /\ plot'.image.shape = Shape(interpolate'.x_grid)
          /\ IF coord_check
                THEN plot'.coord = set_data(World, original_x_coord(interpolate'),
                                            original_y_coord(interpolate'),
                                            plot'.image.shape).plot.coord
                ELSE plot'.coord = NoPoints]_vars

\* a resolution change has moved the vertical marker beyond every drag
\* position, its curve is that column of the displayed field, and the
\* overlay is shown
C22_Witness ==
    /\ outcome.handler = "change_interpolate_num"
    /\ outcome.unhandled = NoError
    /\ plot.image # None
    /\ plot.vcs_pos[1] > MaxDrag * plot.vcs_pos[2]
    /\ plot.vcs_curve = [image |-> plot.image, column |-> int(plot.vcs_pos)]
    /\ plot.hcs_pos[1] > 0
    /\ plot.hcs_curve = [image |-> plot.image, row |-> int(plot.hcs_pos)]
    /\ coord_check
    /\ plot.coord # NoPoints

---------------------------------------------------------------------------
(* Exported cross-sections *)

\* the table of file f holds row r of the displayed field and the suffix of f
\* names the coordinate of r
SuffixNamesRow(f, sfx) ==
    LET y == interpolated_y_coord(interpolate)
        r == f.data.data.value
    IN /\ r.image = plot.image
       /\ r.row + 1 \in 1..Len(y)
       /\ sfx = <<"_", "h", "c", "s", "_">> \o Format3(y[r.row + 1])
                    \o <<"_">> \o MethodChars(method_combo)

SuffixNamesColumn(f, sfx) ==
    LET x == interpolated_x_coord(interpolate)
        c == f.data.data.value
    IN /\ c.image = plot.image
       /\ c.column + 1 \in 1..Len(x)
       /\ sfx = <<"_", "v", "c", "s", "_">> \o Format3(x[c.column + 1])
                    \o <<"_">> \o MethodChars(method_combo)

\* C23: whenever a horizontal (vertical) cross-section is exported, the
\* coordinate in the suffix of the file is the y (x) coordinate of the row
\* (column) of the displayed field whose values the table holds, wherever
\* the marker lines have been dragged.
C23_SuffixIsCoordinateOfExportedRow ==
    [][outcome'.handler = "export"
          => \A f \in fs'.files \ fs.files :
                 LET sfx == SuffixOfFile(f, exporter.filename.v)
                     v == VariantOf(sfx, method_combo)
                 IN /\ v = 3 => SuffixNamesRow(f, sfx)
                    /\ v = 4 => SuffixNamesColumn(f, sfx)]_vars

---------------------------------------------------------------------------
(* Paths on load *)

\* C24: for every path whose final suffix is '.csv', with an apostrophe, a
\* double quote or a backslash in it or without, the load does not end in
\* NotCsvError and reads the file at exactly that path: the point set is the
\* last three columns of that file's table.
C24_PathPassThrough ==
    [][(Loaded' /\ Suffix(outcome'.args[1]) = csv)
          => LET read == read_csv(outcome'.args[1])
             IN /\ outcome'.shown # "NotCsvError"
                /\ set_filepath(interpolate, outcome'.args[1]).exc # "NotCsvError"
                /\ IF read.exc = NoError
                      THEN interpolate'.original_data = iloc_last3(read.value)
                      ELSE outcome'.unhandled = read.exc]_vars

---------------------------------------------------------------------------
(* The fields of the Export object *)

\* C25: the filename stem of the Export object changes only in a step of the
\* filename setter and its root directory only in a step of the root_dir
\* setter (after the constructor); set_root_dir leaves the stem as it is, and
\* export_dataframe and export_ndarray change neither field.
C25_ExportFrame ==
    [][/\ exporter'.filename # exporter.filename => outcome'.handler = "filename"
       /\ exporter'.root_dir # exporter.root_dir => outcome'.handler = "root_dir"
       /\ outcome'.handler = "set_root_dir" => exporter'.filename = exporter.filename
       /\ outcome'.handler \in {"export_dataframe", "export_ndarray"}
             => exporter' = exporter]_vars

====
